---- MODULE Spec2Model ----
(***************************************************************************)
(* A model of syslogdiag/log.py: the attribute-tagged logger (logger), its *)
(* console variant (logtoscreen), its mongo variant (logToMongod) and the  *)
(* reader of the stored records (accessLogFromMongodb).                    *)
(*                                                                         *)
(* Python objects are modelled with their identity: a logger is a handle,  *)
(* its "attributes" field is a reference into a heap of dict objects, so   *)
(* that sharing a dict between two loggers (what copy(self) does) and      *)
(* updating a dict in place are both expressible.                          *)
(***************************************************************************)
EXTENDS Integers, Sequences, FiniteSets, TLC

VARIABLES
    heap,         \* dict objects of the loggers: dict id -> mapping key -> value
    loggers,      \* logger objects: handle -> [cls, attributes (a dict id), log_level]
    stdout,       \* the lines the last call printed, in order
    raised,       \* the exception the last call raised (NoException when it returned)
    last,         \* the name of the last call made
    ret,          \* the list the last call returned (empty for a call returning None)
    store,        \* the documents of the "Logs" collection
    now,          \* datetime.datetime.now(), in days
    next_id,      \* the _id the collection gives the next inserted document
    default_dict, \* the dict object that is the default of attribute_dict
    caller_dict   \* a dict object the caller holds and passes as attribute_dict

vars == <<heap, loggers, stdout, raised, last, ret, store, now, next_id,
          default_dict, caller_dict>>

logvars == <<heap, loggers>>
dbvars == <<store, now, next_id, default_dict, caller_dict>>

(***************************************************************************)
(* Bounds of the model.                                                    *)
(***************************************************************************)
MaxLoggers == 2
MaxEmits == 2
MaxTime == 2

(***************************************************************************)
(* Values.                                                                 *)
(***************************************************************************)
Keys == {"type", "stage"}
Values == {"a", "b"}
Texts == {"x", "y"}
MsgLevels == 0 .. 4

\* **kwargs: every mapping from some of the keys to values
Kwargs == UNION {[D -> Values] : D \in SUBSET Keys}

Handles == 1 .. MaxLoggers
DictIds == 1 .. (MaxLoggers + 2)

\* log levels are strings; they are kept as sequences of characters so that
\* str.lower() is computed and not assumed
off == <<"o", "f", "f">>
terse == <<"t", "e", "r", "s", "e">>
on == <<"o", "n">>
DefaultLogLevel == <<"O", "f", "f">>
LevelArgs == {DefaultLogLevel, terse, <<"O", "N">>, <<"a", "l", "l">>}

LowerChar(c) ==
    CASE c = "O" -> "o"
      [] c = "N" -> "n"
      [] c = "F" -> "f"
      [] c = "T" -> "t"
      [] OTHER -> c

Lower(s) == [i \in 1 .. Len(s) |-> LowerChar(s[i])]

allowed_levels == {off, terse, on}

\* exceptions: the class and the message
Exc(cls, msg) == [cls |-> cls, msg |-> msg]
NoException == Exc("", "")
InvalidSource == Exc("Exception", "Can only create a logger from another logger, or a str identifier")
InvalidLevel == Exc("Exception", "You can't log with level %s")
BaseClassUsed == Exc("Exception", "You're using a base class for logger")

\* the first argument of the constructor: a str, a logger, or something else
Things ==
    [kind : {"str"}, val : Values, h : {0}]
        \cup [kind : {"logger"}, val : {""}, h : Handles]
        \cup [kind : {"other"}, val : {""}, h : {0}]

(***************************************************************************)
(* The heap of dict objects.                                               *)
(***************************************************************************)
Min(S) == CHOOSE x \in S : \A y \in S : x <= y

\* the id of a fresh dict object
Alloc(hp) == Min(DictIds \ DOMAIN hp)

\* Objects nothing refers to are reclaimed.  Object identities are not
\* observable, so the dicts left are renamed after the first logger that
\* holds them.
Collect(hp, lg) ==
    LET name(d) == Min({h \in DOMAIN lg : lg[h].attributes = d})
        live == {lg[h].attributes : h \in DOMAIN lg}
    IN  [heap |-> [n \in {name(d) : d \in live} |->
                      hp[CHOOSE d \in live : name(d) = n]],
         loggers |-> [h \in DOMAIN lg |->
                      [lg[h] EXCEPT !.attributes = name(lg[h].attributes)]]]

\* the value of a logger's attributes
Attrs(hp, lg, h) == hp[lg[h].attributes]

Merge(parent, new) ==
    [k \in DOMAIN parent \cup DOMAIN new |->
        IF k \in DOMAIN new THEN new[k] ELSE parent[k]]

\* the update without the copy: the parent's dict itself is written
get_update_attributes_list_nocopy(hp, parent_attributes, new_attributes) ==
    [heap |-> [hp EXCEPT ![parent_attributes] = Merge(hp[parent_attributes], new_attributes)],
     ref |-> parent_attributes]

\* joined_attributes = copy(parent_attributes); then every key of
\* new_attributes is assigned.  Returns the heap and the new dict's id.
get_update_attributes_list(hp, parent_attributes, new_attributes) ==
    LET joined_attributes == Alloc(hp)
    IN  [heap |-> hp @@ (joined_attributes :> Merge(hp[parent_attributes], new_attributes)),
         ref |-> joined_attributes]

(***************************************************************************)
(* class logger                                                            *)
(***************************************************************************)

\* set_logging_level without the lower(): the level is kept as it was passed
set_logging_level_value_aspassed(new_level) == new_level

\* new_level = new_level.lower()
set_logging_level_value(new_level) == Lower(new_level)

\* logging_level(): getattr(self, "_log_level", "Off"); the constructor
\* always sets the field
logging_level(self) == self.log_level

\* the attributes of a new logger: dict(type=thing) or the parent's
\* attributes, joined with the keyword arguments
init_attributes(hp, lg, thing, kwargs) ==
    IF thing.kind = "str"
    THEN LET log_attributes == Alloc(hp)
         IN  get_update_attributes_list(
                 hp @@ (log_attributes :> [k \in {"type"} |-> thing.val]),
                 log_attributes, kwargs)
    ELSE get_update_attributes_list(hp, lg[thing.h].attributes, kwargs)

\* cls(thing, log_level=log_level, **kwargs)
logger_init(cls, thing, log_level, kwargs) ==
    /\ DOMAIN loggers # Handles
    /\ thing.kind = "logger" => thing.h \in DOMAIN loggers
    /\ LET self == Min(Handles \ DOMAIN loggers)
           new_level == set_logging_level_value(log_level)
       IN  IF thing.kind = "other"
           THEN /\ raised' = InvalidSource
                /\ UNCHANGED logvars
           ELSE IF new_level \notin allowed_levels
           THEN /\ raised' = InvalidLevel
                /\ UNCHANGED logvars
           ELSE LET r == init_attributes(heap, loggers, thing, kwargs)
                    lg == loggers @@ (self :> [cls |-> cls, attributes |-> r.ref,
                                               log_level |-> new_level])
                    c == Collect(r.heap, lg)
                IN  /\ heap' = c.heap
                    /\ loggers' = c.loggers
                    /\ raised' = NoException
    /\ last' = "init"
    /\ ret' = <<>>
    /\ stdout' = <<>>
    /\ UNCHANGED dbvars

\* self.set_logging_level(new_level)
set_logging_level(self, new_level) ==
    /\ self \in DOMAIN loggers
    /\ LET l == set_logging_level_value(new_level)
       IN  IF l \notin allowed_levels
           THEN /\ raised' = InvalidLevel
                /\ UNCHANGED loggers
           ELSE /\ raised' = NoException
                /\ loggers' = [loggers EXCEPT ![self].log_level = l]
    /\ last' = "set_logging_level"
    /\ ret' = <<>>
    /\ stdout' = <<>>
    /\ UNCHANGED <<heap, dbvars>>

\* self.setup(**kwargs): new_log = copy(self) shares self's attributes dict
\* until the joined dict is set on it
setup(self, kwargs) ==
    /\ self \in DOMAIN loggers
    /\ DOMAIN loggers # Handles
    /\ LET new_log == Min(Handles \ DOMAIN loggers)
           copied == loggers @@ (new_log :> loggers[self])
           r == get_update_attributes_list(heap, copied[new_log].attributes, kwargs)
           lg == [copied EXCEPT ![new_log].attributes = r.ref,
                                ![new_log].log_level = logging_level(copied[self])]
           c == Collect(r.heap, lg)
       IN  /\ heap' = c.heap
           /\ loggers' = c.loggers
    /\ raised' = NoException
    /\ last' = "setup"
    /\ ret' = <<>>
    /\ stdout' = <<>>
    /\ UNCHANGED dbvars

\* self.label(**kwargs)
label(self, kwargs) ==
    /\ self \in DOMAIN loggers
    /\ LET r == get_update_attributes_list(heap, loggers[self].attributes, kwargs)
           lg == [loggers EXCEPT ![self].attributes = r.ref]
           c == Collect(r.heap, lg)
       IN  /\ heap' = c.heap
           /\ loggers' = c.loggers
    /\ raised' = NoException
    /\ last' = "label"
    /\ ret' = <<>>
    /\ stdout' = <<>>
    /\ UNCHANGED dbvars

(***************************************************************************)
(* class logtoscreen                                                       *)
(***************************************************************************)

\* the handler with terse messages shown only under "on"
logtoscreen_log_handle_caller_strict(log_level, msglevel, text) ==
    [printed |-> IF msglevel \in {0, 1}
                 THEN (IF log_level = on THEN <<text>> ELSE <<>>)
                 ELSE <<text>>,
     exc |-> IF msglevel = 4 THEN Exc("Exception", text) ELSE NoException,
     inserted |-> {}]

\* what the call prints, the exception it ends with, what it inserts
logtoscreen_log_handle_caller(log_level, msglevel, text) ==
    LET first == IF msglevel = 0
                 THEN (IF log_level = on THEN <<text>> ELSE <<>>)
                 ELSE IF msglevel = 1
                 THEN (IF log_level \in {on, terse} THEN <<text>> ELSE <<>>)
                 ELSE <<text>>
        second == IF msglevel = 3 THEN <<text>> ELSE <<>>
    IN  [printed |-> first \o second,
         exc |-> IF msglevel = 4 THEN Exc("Exception", text) ELSE NoException,
         inserted |-> {}]

(***************************************************************************)
(* class logToMongod                                                       *)
(***************************************************************************)
MSG_LEVEL_DICT ==
    [m \in MsgLevels |->
        CASE m = 2 -> "[Warning]"
          [] m = 3 -> "[Error]"
          [] m = 4 -> "*CRITICAL*"
          [] OTHER -> ""]

LEVEL_ID == "_Level"
TIMESTAMP_ID == "_Timestamp"
TEXT_ID == "_Text"
MONGO_ID_KEY == "_id"
ReservedKeys == {LEVEL_ID, TIMESTAMP_ID, TEXT_ID}

\* "%s %s %s %s" % (datetime_now, str(use_attributes), text): the format
\* string's conversion specifiers and the values of the tuple
FormatSpecifiers == 4
FormatArguments == 3
TypeError == Exc("TypeError", "not enough arguments for format string")

\* the % operator: a line when the tuple has one value per specifier, and
\* TypeError otherwise.  The line is modelled by the text it ends with.
PercentFormat(text) ==
    IF FormatSpecifiers = FormatArguments
    THEN [exc |-> NoException, lines |-> <<text>>]
    ELSE [exc |-> TypeError, lines |-> <<>>]

\* collection.insert_one(log_dict): the document with the _id it is given
insert_one(log_dict, id) == log_dict @@ (MONGO_ID_KEY :> id)

\* log_dict is a copy of use_attributes with the three reserved keys set;
\* it is inserted, and then the line is formatted and printed
logToMongod_log_handle_caller(msglevel, text, use_attributes, datetime_now, id) ==
    LET msg_level_text == MSG_LEVEL_DICT[msglevel]
        log_dict == Merge(use_attributes,
                          (LEVEL_ID :> msg_level_text)
                              @@ (TIMESTAMP_ID :> datetime_now)
                              @@ (TEXT_ID :> text))
        line == PercentFormat(text)
    IN  [printed |-> line.lines,
         exc |-> line.exc,
         inserted |-> {insert_one(log_dict, id)}]

\* the base class's handler
logger_log_handle_caller ==
    [printed |-> <<>>, exc |-> BaseClassUsed, inserted |-> {}]

\* self.log_handle_caller(msglevel, text, use_attributes), by the class of self
log_handle_caller(self, msglevel, text, use_attributes) ==
    IF self.cls = "logtoscreen"
    THEN logtoscreen_log_handle_caller(logging_level(self), msglevel, text)
    ELSE IF self.cls = "logToMongod"
    THEN logToMongod_log_handle_caller(msglevel, text, use_attributes, now, next_id)
    ELSE logger_log_handle_caller

\* self.log(text, msglevel=msglevel, **kwargs), which msg, terse, warn, error
\* and critical call with msglevel 0 .. 4
log(self, text, msglevel, kwargs) ==
    /\ self \in DOMAIN loggers
    /\ loggers[self].cls = "logToMongod" => next_id <= MaxEmits
    /\ LET r == get_update_attributes_list(heap, loggers[self].attributes, kwargs)
           use_attributes == r.heap[r.ref]
           o == log_handle_caller(loggers[self], msglevel, text, use_attributes)
           c == Collect(r.heap, loggers)
       IN  /\ heap' = c.heap
           /\ loggers' = c.loggers
           /\ stdout' = o.printed
           /\ raised' = o.exc
           /\ store' = store \cup o.inserted
           /\ next_id' = next_id + Cardinality(o.inserted)
    /\ last' = "log"
    /\ ret' = <<>>
    /\ UNCHANGED <<now, default_dict, caller_dict>>

(***************************************************************************)
(* The collection, as the reader and the deletion use it.                  *)
(***************************************************************************)

\* a document matches a filter when it has every key of the filter: with the
\* filter's value, or, for the timestamp's {"$lt": date}, with an earlier date
Matches(doc, attribute_dict) ==
    \A k \in DOMAIN attribute_dict :
        /\ k \in DOMAIN doc
        /\ IF k = TIMESTAMP_ID
           THEN doc[k] < attribute_dict[k]["$lt"]
           ELSE doc[k] = attribute_dict[k]

\* the orders a set of documents can be delivered in
RECURSIVE Orders(_)
Orders(docs) ==
    IF docs = {} THEN {<<>>}
    ELSE UNION {{<<doc>> \o rest : rest \in Orders(docs \ {doc})} : doc \in docs}

\* collection.find(attribute_dict): the matching documents; the cursor may
\* deliver them in any order
find(attribute_dict) == Orders({doc \in store : Matches(doc, attribute_dict)})

\* collection.remove(attribute_dict): the documents left
remove(attribute_dict) == {doc \in store : ~Matches(doc, attribute_dict)}

\* dict.pop(key)
Pop(d, key) == [k \in DOMAIN d \ {key} |-> d[k]]

\* {"$lt": cutoff_date}
Lt(cutoff_date) == [k \in {"$lt"} |-> cutoff_date]

(***************************************************************************)
(* class accessLogFromMongodb                                              *)
(***************************************************************************)

\* (timestamps, levels, text_list, attribute_dict), zipped: one tuple
\* (timestamp, level, text, attributes) per document, the three reserved keys
\* popped from the document that is left as the attributes
from_list_of_results_to_list_of_tuples(result_dict) ==
    [i \in 1 .. Len(result_dict) |->
        <<result_dict[i][TIMESTAMP_ID],
          result_dict[i][LEVEL_ID],
          result_dict[i][TEXT_ID],
          Pop(Pop(Pop(result_dict[i], TIMESTAMP_ID), LEVEL_ID), TEXT_ID)>>]

\* the tuple put in its place in a list already sorted; it goes after the
\* tuples of the same timestamp, as in a stable sort
RECURSIVE InsertSorted(_, _)
InsertSorted(tup, sorted_list) ==
    IF sorted_list = <<>> THEN <<tup>>
    ELSE IF tup[1] < Head(sorted_list)[1] THEN <<tup>> \o sorted_list
    ELSE <<Head(sorted_list)>> \o InsertSorted(tup, Tail(sorted_list))

\* the first n tuples, sorted
RECURSIVE SortedUpTo(_, _)
SortedUpTo(results, n) ==
    IF n = 0 THEN <<>>
    ELSE InsertSorted(results[n], SortedUpTo(results, n - 1))

\* the results as the cursor delivered them
sorted_by_timestamp_unsorted(results) == results

\* sorted(results, key=lambda tup: tup[0])
sorted_by_timestamp(results) == SortedUpTo(results, Len(results))

\* the cutoff taken after now instead of before it
cutoff_date_after(days) == now + days

\* cutoff_date = datetime.datetime.now() - datetime.timedelta(days=days)
cutoff_date_before(days) == now - days

\* the filter the query is made with, when the timestamp is not set in it
query_filter_no_cutoff(attribute_dict, cutoff_date) == attribute_dict

\* attribute_dict[TIMESTAMP_ID] = {"$lt": cutoff_date}: the passed dict
\* itself is written
query_filter(attribute_dict, cutoff_date) ==
    Merge(attribute_dict, (TIMESTAMP_ID :> Lt(cutoff_date)))

\* the dict the call is made with: a dict written in the call itself (a
\* literal), the dict the caller holds, or the default of the method called
Passed(method, passed) ==
    IF passed.kind = "literal" THEN passed.val
    ELSE IF passed.kind = "held" THEN caller_dict
    ELSE default_dict[method]

\* the dicts after the call has written d into the dict passed; nothing
\* refers to a literal after the call
WritePassed(method, passed, d) ==
    /\ caller_dict' = IF passed.kind = "held" THEN d ELSE caller_dict
    /\ default_dict' = IF passed.kind = "default"
                       THEN [default_dict EXCEPT ![method] = d]
                       ELSE default_dict

\* what get_log_items_as_tuple returns when the cursor delivers result_dict
\* (the _id is popped from every document first)
log_items_as_tuple(result_dict) ==
    sorted_by_timestamp(
        from_list_of_results_to_list_of_tuples(
            [i \in 1 .. Len(result_dict) |-> Pop(result_dict[i], MONGO_ID_KEY)]))

\* self.get_log_items_as_tuple(attribute_dict, lookback_days)
get_log_items_as_tuple(passed, lookback_days) ==
    /\ LET cutoff_date == cutoff_date_before(lookback_days)
           attribute_dict == query_filter(Passed("get_log_items_as_tuple", passed),
                                          cutoff_date)
       IN  /\ WritePassed("get_log_items_as_tuple", passed, attribute_dict)
           /\ \E result_dict \in find(attribute_dict) :
                  ret' = log_items_as_tuple(result_dict)
    /\ raised' = NoException
    /\ last' = "get_log_items_as_tuple"
    /\ stdout' = <<>>
    /\ UNCHANGED <<logvars, store, now, next_id>>

\* "%s %s %s %s" % (ts, attributes, level, text): four values for four
\* specifiers; the line is modelled by the values in the order they are
\* formatted in
results_as_text(results) ==
    [i \in 1 .. Len(results) |->
        <<results[i][1], results[i][4], results[i][2], results[i][3]>>]

\* self.get_log_items(attribute_dict, lookback_days): its own default dict
\* is the one passed on to get_log_items_as_tuple
get_log_items(passed, lookback_days) ==
    /\ LET cutoff_date == cutoff_date_before(lookback_days)
           attribute_dict == query_filter(Passed("get_log_items", passed), cutoff_date)
       IN  /\ WritePassed("get_log_items", passed, attribute_dict)
           /\ \E result_dict \in find(attribute_dict) :
                  ret' = results_as_text(log_items_as_tuple(result_dict))
    /\ raised' = NoException
    /\ last' = "get_log_items"
    /\ stdout' = <<>>
    /\ UNCHANGED <<logvars, store, now, next_id>>

\* self.delete_log_items_from_before_n_days(days)
delete_log_items_from_before_n_days(days) ==
    /\ LET cutoff_date == cutoff_date_before(days)
           attribute_dict == (TIMESTAMP_ID :> Lt(cutoff_date))
       IN  store' = remove(attribute_dict)
    /\ raised' = NoException
    /\ last' = "delete_log_items_from_before_n_days"
    /\ ret' = <<>>
    /\ stdout' = <<>>
    /\ UNCHANGED <<logvars, now, next_id, default_dict, caller_dict>>

(***************************************************************************)
(* The caller and the clock.                                               *)
(***************************************************************************)

\* the caller builds a new dict of attributes to filter with
CallerNewDict(attribute_dict) ==
    /\ caller_dict # attribute_dict
    /\ caller_dict' = attribute_dict
    /\ UNCHANGED <<logvars, stdout, raised, last, ret, store, now, next_id,
                   default_dict>>

\* a day passes
Tick ==
    /\ now < MaxTime
    /\ now' = now + 1
    /\ UNCHANGED <<logvars, stdout, raised, last, ret, store, next_id,
                   default_dict, caller_dict>>

(***************************************************************************)
(* Specifications.                                                         *)
(***************************************************************************)
EmptyDict == [k \in {} |-> ""]
Methods == {"get_log_items", "get_log_items_as_tuple"}

\* the keyword arguments the calls are made with: none, a key the logger
\* lacks or has, the key every logger has
StageDicts == {d \in Kwargs : DOMAIN d \subseteq {"stage"}}
SomeKwargs == StageDicts \cup {[k \in {"type"} |-> "b"]}
LookbackDays == {0, 1}

\* the thresholds the loggers are given: the default, another, a wrong one
SomeLevelArgs == {DefaultLogLevel, <<"O", "N">>, <<"a", "l", "l">>}

\* the ways a filter is passed to the reader
Literals == [kind : {"literal"}, val : StageDicts \ {EmptyDict}]
Held == [kind : {"held"}, val : {EmptyDict}]
Default == [kind : {"default"}, val : {EmptyDict}]

\* nothing called yet, nothing stored
InitEmpty ==
    /\ stdout = <<>>
    /\ raised = NoException
    /\ last = ""
    /\ ret = <<>>
    /\ store = {}
    /\ now = 0
    /\ next_id = 1
    /\ default_dict = [m \in Methods |-> EmptyDict]
    /\ caller_dict = EmptyDict

\* loggers that print: none constructed yet
InitLogger ==
    /\ heap = EmptyDict
    /\ loggers = EmptyDict
    /\ InitEmpty

NextLogger ==
    \/ \E thing \in Things, log_level \in SomeLevelArgs, kwargs \in SomeKwargs :
           logger_init("logtoscreen", thing, log_level, kwargs)
    \/ \E self \in Handles, new_level \in SomeLevelArgs :
           set_logging_level(self, new_level)
    \/ \E self \in Handles, kwargs \in SomeKwargs : setup(self, kwargs)
    \/ \E self \in Handles, kwargs \in SomeKwargs : label(self, kwargs)
    \/ \E self \in Handles, kwargs \in SomeKwargs : log(self, "x", 2, kwargs)

SpecLogger == InitLogger /\ [][NextLogger]_vars

\* after cls(thing="a")
InitOne(cls) ==
    /\ heap = (1 :> [k \in {"type"} |-> "a"])
    /\ loggers = (1 :> [cls |-> cls, attributes |-> 1, log_level |-> off])
    /\ InitEmpty

\* one logger that prints: every level, under every threshold
InitConsole == InitOne("logtoscreen")

NextConsole ==
    \/ \E text \in Texts, msglevel \in MsgLevels, kwargs \in SomeKwargs :
           log(1, text, msglevel, kwargs)
    \/ \E new_level \in LevelArgs : set_logging_level(1, new_level)
    \/ \E kwargs \in SomeKwargs : label(1, kwargs)

SpecConsole == InitConsole /\ [][NextConsole]_vars

\* one logger that stores, and a reader, on an empty collection
InitMongo == InitOne("logToMongod")

\* the logger that stores: every level, under every threshold
NextSink ==
    \/ \E text \in Texts, msglevel \in MsgLevels, kwargs \in {EmptyDict, [k \in {"stage"} |-> "a"]} :
           log(1, text, msglevel, kwargs)
    \/ \E new_level \in LevelArgs : set_logging_level(1, new_level)

SpecSink == InitMongo /\ [][NextSink]_vars

\* the records of the collection, their reader and the deletion
NextQuery ==
    \/ \E kwargs \in StageDicts : log(1, "x", 3, kwargs)
    \/ Tick
    \/ \E passed \in Literals \cup Default, lookback_days \in LookbackDays :
           get_log_items_as_tuple(passed, lookback_days)
    \/ \E days \in LookbackDays : delete_log_items_from_before_n_days(days)

SpecQuery == InitMongo /\ [][NextQuery]_vars

\* the reader with both of its methods, each with its own default dict
NextReader ==
    \/ \E kwargs \in StageDicts : log(1, "x", 3, kwargs)
    \/ Tick
    \/ \E attribute_dict \in StageDicts : CallerNewDict(attribute_dict)
    \/ \E passed \in Held \cup Default, lookback_days \in LookbackDays :
           get_log_items_as_tuple(passed, lookback_days)
    \/ \E passed \in Held \cup Default, lookback_days \in LookbackDays :
           get_log_items(passed, lookback_days)

SpecReader == InitMongo /\ [][NextReader]_vars

(***************************************************************************)
(* The properties.                                                         *)
(***************************************************************************)

\* m is base with the keys of overrides added or replaced
IsMerge(m, base, overrides) ==
    /\ DOMAIN m = DOMAIN base \cup DOMAIN overrides
    /\ \A k \in DOMAIN overrides : m[k] = overrides[k]
    /\ \A k \in DOMAIN base \ DOMAIN overrides : m[k] = base[k]

\* a and b are the same string but for the case of the letters
SameIgnoringCase(a, b) ==
    /\ Len(a) = Len(b)
    /\ \A i \in 1 .. Len(a) : LowerChar(a[i]) = LowerChar(b[i])

\* the table of the console: is a message of this level printed under this threshold
TablePrinted(msglevel, threshold) ==
    \/ msglevel \in {2, 3, 4}
    \/ msglevel = 1 /\ threshold \in {terse, on}
    \/ msglevel = 0 /\ threshold = on

\* C1: a call of log on a logtoscreen prints the text exactly for the pairs
\* (level, threshold) the table marks printed and prints nothing for the
\* others; at level 4 it prints and ends raising an exception that carries
\* the text, under every threshold; at levels 0 .. 3 it raises nothing.
C1_ConsoleTable ==
    [][\A text \in Texts, msglevel \in MsgLevels, kwargs \in SomeKwargs :
          log(1, text, msglevel, kwargs) =>
              /\ IF TablePrinted(msglevel, loggers[1].log_level)
                 THEN /\ stdout' # <<>>
                      /\ \A i \in 1 .. Len(stdout') : stdout'[i] = text
                 ELSE stdout' = <<>>
              /\ raised' = IF msglevel = 4 THEN Exc("Exception", text)
                           ELSE NoException]_vars

\* a critical message under "off": printed, and raised with its text
C1_Witness ==
    /\ last = "log"
    /\ loggers[1].log_level = off
    /\ stdout = <<"y">>
    /\ raised = Exc("Exception", "y")

\* C2: every call of log on a logToMongod inserts exactly one record and
\* prints exactly one line, which holds the text, whatever the threshold and
\* the level.
C2_OneRecordOneLine ==
    [][\A text \in Texts, msglevel \in MsgLevels, kwargs \in Kwargs :
          log(1, text, msglevel, kwargs) =>
              /\ Cardinality(store') = Cardinality(store) + 1
              /\ Len(stdout') = 1
              /\ stdout'[1] = text]_vars

\* C3: a call of log on a logToMongod never raises, at any level and under
\* any threshold: it returns to its caller.
C3_StoreSinkNeverRaises == last = "log" => raised = NoException

\* the logger made by the step
NewLogger == CHOOSE h \in Handles : h \in DOMAIN loggers' /\ h \notin DOMAIN loggers

\* C4: setup returns a new logger whose attributes are the merge of the
\* source's attributes and the keyword arguments and whose threshold is the
\* source's, and the source keeps its attributes and its threshold: through
\* the setup, and through every later label or threshold change made on
\* another logger.
C4_SetupLeavesSource ==
    [][/\ last' = "setup" =>
              \A self \in DOMAIN loggers, kwargs \in SomeKwargs :
                  setup(self, kwargs) =>
                      /\ DOMAIN loggers' = DOMAIN loggers \cup {NewLogger}
                      /\ NewLogger \notin DOMAIN loggers
                      /\ IsMerge(Attrs(heap', loggers', NewLogger),
                                 Attrs(heap, loggers, self), kwargs)
                      /\ loggers'[NewLogger].log_level = loggers[self].log_level
                      /\ Attrs(heap', loggers', self) = Attrs(heap, loggers, self)
                      /\ loggers'[self].log_level = loggers[self].log_level
       /\ last' = "label" =>
              \A other \in DOMAIN loggers, kwargs \in SomeKwargs :
                  label(other, kwargs) =>
                      \A self \in DOMAIN loggers \ {other} :
                          /\ Attrs(heap', loggers', self) = Attrs(heap, loggers, self)
                          /\ loggers'[self].log_level = loggers[self].log_level
       /\ last' = "set_logging_level" =>
              \A other \in DOMAIN loggers, new_level \in SomeLevelArgs :
                  set_logging_level(other, new_level) =>
                      \A self \in DOMAIN loggers \ {other} :
                          /\ Attrs(heap', loggers', self) = Attrs(heap, loggers, self)
                          /\ loggers'[self].log_level = loggers[self].log_level]_vars

\* a logger just made by setup, "on" as its source, with other attributes
C4_Witness ==
    /\ last = "setup"
    /\ DOMAIN loggers = {1, 2}
    /\ loggers[1].log_level = on
    /\ loggers[2].log_level = on
    /\ Attrs(heap, loggers, 1) = [k \in {"type"} |-> "a"]
    /\ Attrs(heap, loggers, 2) = [k \in {"type", "stage"} |-> "a"]

\* C5: the attributes of a logger change only by label called on it, and
\* then to the merge of its attributes and the keyword arguments: every other
\* call (a construction from it, setup, a label on another logger, log with
\* keyword arguments of its own) leaves them as they are.
C5_OnlyLabelChangesAttributes ==
    [][/\ DOMAIN loggers \subseteq DOMAIN loggers'
       /\ last' = "label" =>
              \A h \in DOMAIN loggers :
                  IF \E kwargs \in SomeKwargs : label(h, kwargs)
                  THEN \A kwargs \in SomeKwargs :
                           label(h, kwargs) =>
                               IsMerge(Attrs(heap', loggers', h), Attrs(heap, loggers, h), kwargs)
                  ELSE Attrs(heap', loggers', h) = Attrs(heap, loggers, h)
       /\ last' # "label" =>
              \A h \in DOMAIN loggers :
                  Attrs(heap', loggers', h) = Attrs(heap, loggers, h)]_vars

\* two loggers, the second with a key the first one was not given, after a
\* log call made with keyword arguments
C5_Witness ==
    /\ last = "log"
    /\ DOMAIN loggers = {1, 2}
    /\ "stage" \notin DOMAIN Attrs(heap, loggers, 1)
    /\ "stage" \in DOMAIN Attrs(heap, loggers, 2)
    /\ Attrs(heap, loggers, 1)["type"] # Attrs(heap, loggers, 2)["type"]

\* C6: a logger constructed from a str has the attributes {type: the str}
\* merged with the keyword arguments; one constructed from a logger has that
\* logger's attributes merged with the keyword arguments, and the logger it
\* was constructed from keeps its attributes and its threshold.  The new
\* logger's threshold is the one passed (in lower case), "off" when none is
\* passed, and a construction with no threshold does yield a logger.
C6_Construction ==
    [][last' = "init" =>
       \A thing \in Things, log_level \in SomeLevelArgs, kwargs \in SomeKwargs :
          (thing.kind # "other" /\ logger_init("logtoscreen", thing, log_level, kwargs)) =>
              /\ log_level = DefaultLogLevel => raised' = NoException
              /\ raised' = NoException =>
                  /\ DOMAIN loggers' = DOMAIN loggers \cup {NewLogger}
                  /\ NewLogger \notin DOMAIN loggers
                  /\ IsMerge(Attrs(heap', loggers', NewLogger),
                             IF thing.kind = "str"
                             THEN [k \in {"type"} |-> thing.val]
                             ELSE Attrs(heap, loggers, thing.h),
                             kwargs)
                  /\ thing.kind = "logger" =>
                         /\ Attrs(heap', loggers', thing.h) = Attrs(heap, loggers, thing.h)
                         /\ loggers'[thing.h].log_level = loggers[thing.h].log_level
                  /\ loggers'[NewLogger].log_level \in allowed_levels
                  /\ SameIgnoringCase(loggers'[NewLogger].log_level, log_level)
                  /\ log_level = DefaultLogLevel => loggers'[NewLogger].log_level = off]_vars

\* a logger constructed from a logger that is "on": it has its own
\* threshold, a key of its own, and a key of its parent's with a new value
C6_Witness ==
    /\ last = "init"
    /\ raised = NoException
    /\ DOMAIN loggers = {1, 2}
    /\ loggers[1].log_level = on
    /\ loggers[2].log_level = off
    /\ Attrs(heap, loggers, 1) = [k \in {"type", "stage"} |-> "a"]
    /\ Attrs(heap, loggers, 2) = [k \in {"type", "stage"} |-> IF k = "stage" THEN "b" ELSE "a"]

\* the attributes a filter asks for: its keys but the timestamp's, which the
\* reader sets itself
AskedFor(attribute_dict) ==
    [k \in DOMAIN attribute_dict \ {TIMESTAMP_ID} |-> attribute_dict[k]]

\* the stored records that have every attribute asked for and are strictly
\* older than the cutoff date
Selected(attribute_dict, cutoff) ==
    {doc \in store :
        /\ \A k \in DOMAIN AskedFor(attribute_dict) :
               k \in DOMAIN doc /\ doc[k] = attribute_dict[k]
        /\ doc[TIMESTAMP_ID] < cutoff}

\* a stored record as the reader returns it: the timestamp, the severity tag
\* and the text as fields, and the attributes it was logged with
RecordOf(doc) ==
    <<doc[TIMESTAMP_ID], doc[LEVEL_ID], doc[TEXT_ID],
      [k \in DOMAIN doc \cap Keys |-> doc[k]]>>

\* C7: get_log_items_as_tuple(attribute_dict, lookback_days) returns exactly
\* the stored records that have every attribute of the filter and a
\* timestamp strictly before now - lookback_days, each once, in ascending
\* order of timestamp, with the timestamp, the severity tag and the text as
\* fields of their own and not among the attributes.
C7_Fetch ==
    [][last' = "get_log_items_as_tuple" =>
       \A passed \in Literals \cup Default, lookback_days \in LookbackDays :
          get_log_items_as_tuple(passed, lookback_days) =>
              LET selected == Selected(Passed("get_log_items_as_tuple", passed),
                                       now - lookback_days)
              IN  /\ Len(ret') = Cardinality(selected)
                  /\ \A doc \in selected :
                         Cardinality({i \in 1 .. Len(ret') : ret'[i] = RecordOf(doc)})
                             = Cardinality({other \in selected : RecordOf(other) = RecordOf(doc)})
                  /\ \A i, j \in 1 .. Len(ret') : i < j => ret'[i][1] <= ret'[j][1]
                  /\ \A i \in 1 .. Len(ret') :
                         /\ Len(ret'[i]) = 4
                         /\ DOMAIN ret'[i][4] \cap (ReservedKeys \cup {MONGO_ID_KEY}) = {}]_vars

\* a filter on an attribute has selected the older of two records, and not
\* the newer one, which has the attribute too
C7_Witness ==
    /\ last = "get_log_items_as_tuple"
    /\ now = 1
    /\ Len(ret) = 1
    /\ ret[1][1] = 0
    /\ ret[1][4] = [k \in {"type", "stage"} |-> "a"]
    /\ \E doc \in store : doc[TIMESTAMP_ID] = 1 /\ RecordOf(doc)[4] = ret[1][4]

\* no stored record is older than the cutoff date
NoneOlder(cutoff) == \A doc \in store : ~(doc[TIMESTAMP_ID] < cutoff)
CutoffDates == {t - d : t \in 0 .. MaxTime, d \in LookbackDays}

\* C8: delete_log_items_from_before_n_days(days) deletes exactly the records
\* whose timestamp is strictly before now - days, whatever their attributes,
\* and leaves the others as they are.  From then on no record is older than
\* that date (no call stores a record older than one already passed), so a
\* later get_log_items_as_tuple whose cutoff is that date or an earlier one
\* returns nothing, whatever its filter.
C8_Prune ==
    [][/\ last' = "delete_log_items_from_before_n_days" =>
              \A days \in LookbackDays :
                  delete_log_items_from_before_n_days(days) =>
                      /\ store' = {doc \in store : ~(doc[TIMESTAMP_ID] < now - days)}
                      /\ NoneOlder(now - days)'
       /\ store' # store =>
              \A cutoff \in CutoffDates :
                  (cutoff <= now /\ NoneOlder(cutoff)) => NoneOlder(cutoff)'
       /\ last' = "get_log_items_as_tuple" =>
              \A passed \in Literals \cup Default, lookback_days \in LookbackDays :
                  (NoneOlder(now - lookback_days)
                       /\ get_log_items_as_tuple(passed, lookback_days)) => ret' = <<>>]_vars

\* a deletion has removed a record and left a newer one
C8_Witness ==
    /\ last = "delete_log_items_from_before_n_days"
    /\ Cardinality(store) = 1
    /\ next_id = 3
    /\ \A doc \in store : doc[MONGO_ID_KEY] = 2 /\ doc[TIMESTAMP_ID] = now

\* C9: get_log_items_as_tuple and get_log_items leave the dict passed as
\* attribute_dict, and the default dicts, with the keys and values they had.
C9_FilterNotWritten ==
    [][\A passed \in Held \cup Default, lookback_days \in LookbackDays :
          (\/ get_log_items_as_tuple(passed, lookback_days)
           \/ get_log_items(passed, lookback_days)) =>
              /\ caller_dict' = caller_dict
              /\ default_dict' = default_dict]_vars

\* C10: one call of log on a logtoscreen prints at most one line.
C10_AtMostOneLine == last = "log" => Len(stdout) <= 1

====
